---- MODULE Spec2Model ----
(***************************************************************************)
(* A model of flocker/node/_config.py: validation and parsing of the fig   *)
(* and native (flocker) application configurations, assembly of the        *)
(* Deployment, current_from_configuration and configuration_to_yaml; and   *)
(* of the validating client of flocker/ca/functional/test_validation.py.   *)
(*                                                                         *)
(* Decoded YAML values are records of one shape, so that values of         *)
(* different Python types can live in the same list or mapping:            *)
(*   t : the Python type ("none", "bool", "int", "str", "unicode", "list", *)
(*       "dict"); the decoder gives a unicode for a text that is not ASCII *)
(*   s : the text of a str or unicode, a sequence of symbols in which ":"  *)
(*       is the colon, "/" the slash and every other symbol a word         *)
(*   n : the number of an int (of a bool: 0 or 1)                          *)
(*   l : the items of a list                                               *)
(*   d : the items of a dict, a function from key texts to values          *)
(***************************************************************************)
EXTENDS Integers, Sequences, FiniteSets, TLC

VARIABLES
    mode,               \* what runs: "model" | "current" | "yaml" | "validate"
    lenient,            \* Configuration._lenient
    appConfig,          \* the application_configuration object being parsed
    appInput,           \* appConfig as the caller handed it over
    depConfig,          \* the deployment_configuration object
    current,            \* current_from_configuration's argument
    yamlApps,           \* configuration_to_yaml's argument
    names,              \* FigConfiguration._application_names (key order)
    validated,          \* FigConfiguration._validated
    applications,       \* the name -> Application table being filled
    application_links,  \* FigConfiguration._application_links
    scan,               \* the items the running loop has still to visit
    hosts,              \* current_from_configuration: the items still to visit
    host,               \* current_from_configuration: the hostname in hand
    nodes,              \* the Node records built so far
    pc,                 \* where the call is, or was when an exception left it
    result,             \* what the public operation returned or raised
    credential,         \* ValidationTests: the credential the server presents
    asserted,           \* ValidationTests: "validates" | "does_not_validate"
    handshake,          \* the TLS handshake: "none" | "completed" | "rejected"
    wire,               \* what the server has written and the client not yet got
    buffer,             \* ReceivingProtocol._buffer
    client_result       \* ReceivingProtocol.result: "pending" | "fired" | "failed"

\* The state of a ValidationTests test, and the state of a configuration call
\* apart from its position.
validation == <<credential, asserted, handshake, wire, buffer, client_result>>
parsing == <<mode, lenient, appConfig, appInput, depConfig, current,
             yamlApps, names, validated, applications, application_links,
             scan, hosts, host, nodes, result>>

vars == <<mode, lenient, appConfig, appInput, depConfig, current, yamlApps,
          names, validated, applications, application_links, scan, hosts,
          host, nodes, pc, result, credential, asserted, handshake, wire,
          buffer, client_result>>

-----------------------------------------------------------------------------
(* Decoded values *)

Nil == [t |-> "none", s |-> <<>>, n |-> 0, l |-> <<>>, d |-> <<>>]
VStr(x) == [Nil EXCEPT !.t = "str", !.s = x]
VUnicode(x) == [Nil EXCEPT !.t = "unicode", !.s = x]
VInt(k) == [Nil EXCEPT !.t = "int", !.n = k]
VBool(b) == [Nil EXCEPT !.t = "bool", !.n = IF b THEN 1 ELSE 0]
VList(q) == [Nil EXCEPT !.t = "list", !.l = q]
VDict(f) == [Nil EXCEPT !.t = "dict", !.d = f]

\* A one-word text.
W(w) == <<w>>
\* A str value of one word; the keys of a dict are values too.
VW(w) == VStr(W(w))

EmptyMap == <<>>

\* Python's truth value of a decoded value.
Truthy(v) ==
    CASE v.t = "none" -> FALSE
      [] v.t = "bool" -> v.n # 0
      [] v.t = "int" -> v.n # 0
      [] v.t \in {"str", "unicode"} -> v.s # <<>>
      [] v.t = "list" -> v.l # <<>>
      [] v.t = "dict" -> DOMAIN v.d # {}

\* type(value).__name__
TypeName(v) == IF v.t = "none" THEN "NoneType" ELSE v.t

\* isinstance(value, types): bool is a subclass of int.
IsInstance(v, types) ==
    \/ v.t \in types
    \/ v.t = "bool" /\ "int" \in types

\* (str, unicode), types.StringTypes
StringTypes == {"str", "unicode"}

\* d with key k removed (dict.pop's effect on the mapping).
Without(d, k) == [x \in DOMAIN d \ {k} |-> d[x]]

\* All orders in which the keys of a dict can be visited.
Perms(S) ==
    {q \in [1..Cardinality(S) -> S] : \A i, j \in DOMAIN q : q[i] = q[j] => i = j}

\* str.split(':') on a text: the colon-free pieces, in order.
RECURSIVE SplitFrom(_, _, _)
SplitFrom(s, i, piece) ==
    IF i > Len(s) THEN <<piece>>
    ELSE IF s[i] = ":" THEN <<piece>> \o SplitFrom(s, i + 1, <<>>)
    ELSE SplitFrom(s, i + 1, Append(piece, s[i]))

split(s) == SplitFrom(s, 1, <<>>)

\* The words int() accepts, with their values.
Numerals == ("80" :> 80) @@ ("8080" :> 8080) @@ ("5432" :> 5432)

\* int(text) succeeds on a text that is one numeral.
IsInt(p) == Len(p) = 1 /\ p[1] \in DOMAIN Numerals
int(p) == Numerals[p[1]]

-----------------------------------------------------------------------------
(* Exceptions and the records of _model *)

\* kind: the exception class; msg: the fixed part of its message; section: the
\* configuration a top-level error is about ("Application" | "Deployment"); app,
\* host and value: what the message is formatted with (Nil when it names none).
NoError ==
    [kind |-> "none", msg |-> "", section |-> "", app |-> Nil, host |-> Nil,
     value |-> Nil]
Raise(kind, msg) == [NoError EXCEPT !.kind = kind, !.msg = msg]
\* A ConfigurationError whose message names an application.
AppError(app, msg) ==
    [NoError EXCEPT !.kind = "ConfigurationError", !.msg = msg, !.app = app]
\* A ValueError of a field validator, not yet wrapped.
ValueError(msg) == Raise("ValueError", msg)

\* What a function call gave: a value (err.kind = "none") or an exception.
Ok(v) == [err |-> NoError, val |-> v]
Fail(e) == [err |-> e, val |-> Nil]
IsOk(r) == r.err.kind = "none"

Port(internal, external) == [internal_port |-> internal, external_port |-> external]
Link(local, remote, alias) ==
    [local_port |-> local, remote_port |-> remote, alias |-> alias]

\* FilePath(text), or an undefined mountpoint (None).
FilePath(s) == [t |-> "path", s |-> s]
NoPath == [t |-> "none", s |-> <<>>]

NoVolume == [present |-> FALSE, name |-> Nil, mountpoint |-> NoPath]
AttachedVolume(name, mountpoint) ==
    [present |-> TRUE, name |-> name, mountpoint |-> mountpoint]

\* Application.environment: None, a frozenset of (key, value) pairs, or (native
\* front end) the falsy value that was configured, kept as it is.
NoEnvironment == [t |-> "none", pairs |-> {}, raw |-> Nil]
EnvironmentSet(pairs) == [t |-> "set", pairs |-> pairs, raw |-> Nil]
EnvironmentRaw(v) == [t |-> "raw", pairs |-> {}, raw |-> v]

Application(name, image, volume, ports, links, environment) ==
    [name |-> name, image |-> image, volume |-> volume, ports |-> ports,
     links |-> links, environment |-> environment]

Node(hostname, apps) == [hostname |-> hostname, applications |-> apps]
Deployment(ns) == [nodes |-> ns]

\* DockerImage.from_string: 'repository[:tag]', split at the last colon; an
\* empty repository is a ValueError, and a value that is no str has no rsplit.
RECURSIVE LastColon(_, _)
LastColon(s, i) ==
    IF i = 0 THEN 0 ELSE IF s[i] = ":" THEN i ELSE LastColon(s, i - 1)

DockerImage_from_string(v) ==
    IF v.t \notin StringTypes THEN Fail(Raise("AttributeError", "rsplit"))
    ELSE LET c == LastColon(v.s, Len(v.s))
             repository == IF c = 0 THEN v.s ELSE SubSeq(v.s, 1, c - 1)
             tag == IF c = 0 THEN W("latest") ELSE SubSeq(v.s, c + 1, Len(v.s))
         IN  IF repository = <<>>
             THEN Fail(ValueError("Docker image names must have format 'repository[:tag]'"))
             ELSE Ok([repository |-> repository, tag |-> tag])

-----------------------------------------------------------------------------
(* _check_type *)

check_type(value, types, description, application_name) ==
    IF IsInstance(value, types) THEN NoError
    ELSE [AppError(application_name, description) EXCEPT !.value = VW(TypeName(value))]

-----------------------------------------------------------------------------
(* FigConfiguration *)

possible_identifiers == {VW("image"), VW("build")}

unsupported_keys ==
    {VW("working_dir"), VW("entrypoint"), VW("user"), VW("hostname"),
     VW("domainname"), VW("mem_limit"), VW("privileged"), VW("dns"), VW("net"),
     VW("volumes_from"), VW("expose"), VW("command")}

allowed_keys ==
    {VW("image"), VW("environment"), VW("ports"), VW("links"), VW("volumes")}

count_identifier_keys(config) ==
    Cardinality(possible_identifiers \cap DOMAIN config.d)

\* is_valid_format's loop over the items in the order `order`, from item i on,
\* with _validated = v so far: the flag it leaves and the error it raises.
RECURSIVE is_valid_format_from(_, _, _, _)
is_valid_format_from(config, order, i, v) ==
    IF i > Len(order) THEN [validated |-> v, err |-> NoError]
    ELSE LET application_name == order[i]
             c == config.d[application_name]
         IN  IF c.t = "dict"
             THEN LET required_keys == count_identifier_keys(c)
                  IN  IF required_keys = 1
                      THEN is_valid_format_from(config, order, i + 1, TRUE)
                      ELSE IF required_keys > 1
                      THEN [validated |-> v,
                            err |-> AppError(application_name,
                                "Must specify either 'build' or 'image'; found both.")]
                      ELSE is_valid_format_from(config, order, i + 1, v)
             ELSE is_valid_format_from(config, order, i + 1, v)

\* Mutant (C2): an entry with both identifying keys counts like one with one.
is_valid_format_any(config, order) ==
    [validated |-> \E i \in DOMAIN order :
                      /\ config.d[order[i]].t = "dict"
                      /\ count_identifier_keys(config.d[order[i]]) >= 1,
     err |-> NoError]

\* Mutant (C3): the scan stops at the first entry that settles the dialect.
is_valid_format_stop(config, order) ==
    LET settled == {i \in DOMAIN order :
                       /\ config.d[order[i]].t = "dict"
                       /\ count_identifier_keys(config.d[order[i]]) >= 1}
        first == CHOOSE i \in settled : \A j \in settled : i <= j
    IN  IF settled = {} THEN [validated |-> FALSE, err |-> NoError]
        ELSE is_valid_format_from(config, SubSeq(order, 1, first), 1, FALSE)

is_valid_format(config, order) == is_valid_format_from(config, order, 1, FALSE)

\* Mutant (C12): only 'image' is taken for an identifying key.
validate_application_keys_image_only(application, config) ==
    LET typed == check_type(config, {"dict"},
                     "Application configuration must be dictionary", application)
        present_keys == DOMAIN config.d
        invalid_keys == present_keys \ allowed_keys
        present_unsupported_keys == unsupported_keys \cap present_keys
    IN  IF typed.kind # "none" THEN typed
        ELSE IF VW("image") \notin present_keys
        THEN ValueError("Application configuration must contain either an 'image' or 'build' key.")
        ELSE IF VW("build") \in present_keys
        THEN ValueError("'build' is not supported yet; please specify 'image'.")
        ELSE IF present_unsupported_keys # {}
        THEN ValueError("Unsupported fig keys found")
        ELSE IF invalid_keys # {}
        THEN ValueError("Unrecognised keys")
        ELSE NoError

\* _validate_application_keys: the exception it raises, if any.
validate_application_keys(application, config) ==
    LET typed == check_type(config, {"dict"},
                     "Application configuration must be dictionary", application)
        present_keys == DOMAIN config.d
        invalid_keys == present_keys \ allowed_keys
        present_unsupported_keys == unsupported_keys \cap present_keys
    IN  IF typed.kind # "none" THEN typed
        ELSE IF count_identifier_keys(config) = 0
        THEN ValueError("Application configuration must contain either an 'image' or 'build' key.")
        ELSE IF VW("build") \in present_keys
        THEN ValueError("'build' is not supported yet; please specify 'image'.")
        ELSE IF present_unsupported_keys # {}
        THEN ValueError("Unsupported fig keys found")
        ELSE IF invalid_keys # {}
        THEN ValueError("Unrecognised keys")
        ELSE NoError

\* _parse_app_environment: only the values are type-checked.
parse_app_environment(application, environment) ==
    LET typed == check_type(environment, {"dict"},
                     "'environment' must be a dictionary", application)
    IN  IF typed.kind # "none" THEN Fail(typed)
        ELSE LET bad == {var \in DOMAIN environment.d :
                            ~IsInstance(environment.d[var], StringTypes)}
             IN  IF bad # {}
                 THEN Fail(check_type(environment.d[CHOOSE var \in bad : TRUE], StringTypes,
                               "'environment' value must be a string", application))
                 ELSE Ok(EnvironmentSet(
                          {<<var, environment.d[var]>> : var \in DOMAIN environment.d}))

\* Mutant (C13): a list of several volumes is accepted and its last item used.
parse_app_volumes_many(application, volumes) ==
    LET typed == check_type(volumes, {"list"}, "'volumes' must be a list", application)
        items == volumes.l
        unchanged(e) == [err |-> e, val |-> NoVolume, rest |-> volumes]
    IN  IF typed.kind # "none" THEN unchanged(typed)
        ELSE IF \E i \in DOMAIN items : ~IsInstance(items[i], StringTypes)
        THEN unchanged(AppError(application, "'volumes' values must be string"))
        ELSE IF Len(items) = 0
        THEN unchanged(Raise("IndexError", "pop from empty list"))
        ELSE [err |-> NoError,
              val |-> AttachedVolume(application, FilePath(items[Len(items)].s)),
              rest |-> VList(SubSeq(items, 1, Len(items) - 1))]

\* _parse_app_volumes: volumes.pop() takes the last item off the caller's list,
\* so the call also gives the list as it leaves it (rest).
parse_app_volumes(application, volumes) ==
    LET typed == check_type(volumes, {"list"}, "'volumes' must be a list", application)
        items == volumes.l
        unchanged(e) == [err |-> e, val |-> NoVolume, rest |-> volumes]
    IN  IF typed.kind # "none" THEN unchanged(typed)
        ELSE IF \E i \in DOMAIN items : ~IsInstance(items[i], StringTypes)
        THEN unchanged(AppError(application, "'volumes' values must be string"))
        ELSE IF Len(items) > 1
        THEN unchanged(AppError(application,
                 "Only one volume per application is supported at this time."))
        ELSE IF Len(items) = 0
        THEN unchanged(Raise("IndexError", "pop from empty list"))
        ELSE [err |-> NoError,
              val |-> AttachedVolume(application, FilePath(items[Len(items)].s)),
              rest |-> VList(SubSeq(items, 1, Len(items) - 1))]

\* _parse_app_ports, from item i on with return_ports so far.
RECURSIVE parse_app_ports_from(_, _, _, _)
parse_app_ports_from(application, items, i, return_ports) ==
    IF i > Len(items) THEN Ok(return_ports)
    ELSE LET port == items[i]
         IN  IF port.t \notin StringTypes THEN Fail(Raise("AttributeError", "split"))
             ELSE LET parsed_ports == split(port.s)
                  IN  IF Len(parsed_ports) # 2
                      THEN Fail(AppError(application,
                               "'ports' must be list of string values in the form of 'host_port:container_port'."))
                      ELSE IF ~(IsInt(parsed_ports[1]) /\ IsInt(parsed_ports[2]))
                      THEN Fail([AppError(application,
                               "'ports' value could not be parsed in to integer values.")
                               EXCEPT !.value = port])
                      ELSE parse_app_ports_from(application, items, i + 1,
                               Append(return_ports,
                                      Port(VInt(int(parsed_ports[2])),
                                           VInt(int(parsed_ports[1])))))

parse_app_ports(application, ports) ==
    LET typed == check_type(ports, {"list"}, "'ports' must be a list", application)
    IN  IF typed.kind # "none" THEN Fail(typed)
        ELSE parse_app_ports_from(application, ports.l, 1, <<>>)

\* _parse_app_links, from item i on: the directives appended to
\* _application_links[application] (recorded) and the exception raised, if any.
RECURSIVE parse_app_links_from(_, _, _, _, _)
parse_app_links_from(application, items, i, application_names, recorded) ==
    IF i > Len(items) THEN [err |-> NoError, recorded |-> recorded]
    ELSE LET link == items[i]
         IN  IF ~IsInstance(link, StringTypes)
             THEN [err |-> AppError(application,
                       "'links' must be a list of application names with optional :alias."),
                   recorded |-> recorded]
             ELSE LET parsed_link == split(link.s)
                      local_link == parsed_link[1]
                      aliased_link == IF Len(parsed_link) = 2 THEN parsed_link[2]
                                      ELSE local_link
                      known == {k \in DOMAIN application_names :
                                   /\ application_names[k].t \in StringTypes
                                   /\ application_names[k].s = local_link}
                  IN  IF known = {}
                      THEN [err |-> [AppError(application,
                                "'links' value could not be mapped to any application")
                                EXCEPT !.value = link],
                            recorded |-> recorded]
                      ELSE parse_app_links_from(application, items, i + 1,
                               application_names,
                               Append(recorded,
                                      [target_application |->
                                           application_names[CHOOSE k \in known : TRUE],
                                       alias |-> [link EXCEPT !.s = aliased_link]]))

\* Mutant (C5): every string directive is recorded, its target known or not.
parse_app_links_unchecked(application, links, application_names) ==
    LET typed == check_type(links, {"list"}, "'links' must be a list", application)
        piece(i, k) == IF Len(split(links.l[i].s)) = 2 THEN split(links.l[i].s)[k]
                       ELSE split(links.l[i].s)[1]
    IN  IF typed.kind # "none" THEN [err |-> typed, recorded |-> <<>>]
        ELSE IF \E i \in DOMAIN links.l : links.l[i].t \notin StringTypes
        THEN [err |-> AppError(application,
                  "'links' must be a list of application names with optional :alias."),
              recorded |-> <<>>]
        ELSE [err |-> NoError,
              recorded |-> [i \in DOMAIN links.l |->
                  [target_application |-> [links.l[i] EXCEPT !.s = piece(i, 1)],
                   alias |-> [links.l[i] EXCEPT !.s = piece(i, 2)]]]]

parse_app_links(application, links, application_names) ==
    LET typed == check_type(links, {"list"}, "'links' must be a list", application)
    IN  IF typed.kind # "none" THEN [err |-> typed, recorded |-> <<>>]
        ELSE parse_app_links_from(application, links.l, 1, application_names, <<>>)

\* The except clause of _parse: a ValueError is re-raised as a
\* ConfigurationError naming the application; anything else passes through.
wrap_value_error(application_name, e) ==
    IF e.kind = "ValueError"
    THEN [e EXCEPT !.kind = "ConfigurationError", !.app = application_name]
    ELSE e

NoApplication == Application(Nil, Nil, NoVolume, {}, {}, NoEnvironment)

\* One turn of _parse's loop, for the item (application_name, config):
\*   err      the exception that leaves the loop, if any
\*   app      the Application stored in _applications (err.kind = "none")
\*   linked   whether _application_links[application_name] = [] was reached
\*   recorded the directives appended to _application_links[application_name]
\*   config   the item's config as the turn leaves it (volumes.pop())
parse_application(application_name, config, application_names) ==
    LET has(k) == VW(k) \in DOMAIN config.d
        keys == validate_application_keys(application_name, config)
        image_type == check_type(config.d[VW("image")], StringTypes,
                          "'image' must be a string", application_name)
        image == DockerImage_from_string(config.d[VW("image")])
        before == IF keys.kind # "none" THEN keys
                  ELSE IF image_type.kind # "none" THEN image_type
                  ELSE image.err
        environment == IF has("environment")
                       THEN parse_app_environment(application_name,
                                                  config.d[VW("environment")])
                       ELSE Ok(NoEnvironment)
        volume == IF has("volumes")
                  THEN parse_app_volumes(application_name, config.d[VW("volumes")])
                  ELSE [err |-> NoError, val |-> NoVolume, rest |-> Nil]
        popped == IF has("volumes")
                  THEN VDict([config.d EXCEPT ![VW("volumes")] = volume.rest])
                  ELSE config
        ports == IF has("ports")
                 THEN parse_app_ports(application_name, config.d[VW("ports")])
                 ELSE Ok(<<>>)
        links == IF has("links")
                 THEN parse_app_links(application_name, config.d[VW("links")],
                                      application_names)
                 ELSE [err |-> NoError, recorded |-> <<>>]
        out(e, linked, recorded, cfg, app) ==
            [err |-> wrap_value_error(application_name, e), app |-> app,
             linked |-> linked, recorded |-> recorded, config |-> cfg]
    IN  IF before.kind # "none"
        THEN out(before, FALSE, <<>>, config, NoApplication)
        ELSE IF ~IsOk(environment)
        THEN out(environment.err, TRUE, <<>>, config, NoApplication)
        ELSE IF volume.err.kind # "none"
        THEN out(volume.err, TRUE, <<>>, popped, NoApplication)
        ELSE IF ~IsOk(ports)
        THEN out(ports.err, TRUE, <<>>, popped, NoApplication)
        ELSE IF links.err.kind # "none"
        THEN out(links.err, TRUE, links.recorded, popped, NoApplication)
        ELSE out(NoError, TRUE, links.recorded, popped,
                 Application(application_name, image.val, volume.val,
                             {ports.val[i] : i \in DOMAIN ports.val}, {},
                             environment.val))

\* One turn of _link_applications' outer loop: the links of application_name,
\* one Link per recorded directive and per port of the directive's target. The
\* lookup of a target that is not in _applications is a KeyError.
\* Mutant (C4): the two ports of a link are exchanged.
link_application_swapped(link, apps) ==
    IF \E i \in DOMAIN link : link[i].target_application \notin DOMAIN apps
    THEN Fail(Raise("KeyError", "target_application"))
    ELSE Ok({Link(p.external_port, p.internal_port, link[i].alias) :
                <<i, p>> \in {<<j, q>> \in (DOMAIN link) \X
                                  UNION {apps[a].ports : a \in DOMAIN apps} :
                                  q \in apps[link[j].target_application].ports}})

link_application(link, apps) ==
    IF \E i \in DOMAIN link : link[i].target_application \notin DOMAIN apps
    THEN Fail(Raise("KeyError", "target_application"))
    ELSE Ok({Link(p.internal_port, p.external_port, link[i].alias) :
                <<i, p>> \in {<<j, q>> \in (DOMAIN link) \X
                                  UNION {apps[a].ports : a \in DOMAIN apps} :
                                  q \in apps[link[j].target_application].ports}})

-----------------------------------------------------------------------------
(* Configuration: the native front end *)

\* value.pop(key) of a decoded value: a dict gives the item (KeyError without
\* it), a list takes no str index, other values have no pop.
pop(value, key) ==
    CASE value.t = "dict" ->
            IF key \in DOMAIN value.d THEN Ok(value.d[key])
            ELSE Fail(Raise("KeyError", "pop"))
      [] value.t = "list" -> Fail(Raise("TypeError", "pop"))
      [] OTHER -> Fail(Raise("AttributeError", "pop"))

\* The items a for loop over a decoded value visits: the items of a list, the
\* keys of a dict, the characters of a text; other values are not iterable.
\* (A dict's keys and a text's characters are visited as str values.)
iterate(value) ==
    CASE value.t = "list" -> Ok(value.l)
      [] value.t = "dict" ->
            Ok(IF DOMAIN value.d = {} THEN <<>>
               ELSE CHOOSE q \in Perms(DOMAIN value.d) : TRUE)
      [] value.t \in StringTypes -> Ok([i \in DOMAIN value.s |-> VW(value.s[i])])
      [] OTHER -> Fail(Raise("TypeError", "not iterable"))

\* The ports loop of _applications_from_flocker_configuration, from item i on.
RECURSIVE native_ports_from(_, _, _)
native_ports_from(items, i, ports) ==
    IF i > Len(items) THEN Ok(ports)
    ELSE LET port == items[i]
             internal_port == pop(port, VW("internal"))
             external_port == pop(port, VW("external"))
             left == DOMAIN port.d \ {VW("internal"), VW("external")}
         IN  IF internal_port.err.kind = "KeyError"
             THEN Fail(ValueError("Missing internal port."))
             ELSE IF ~IsOk(internal_port) THEN internal_port
             ELSE IF external_port.err.kind = "KeyError"
             THEN Fail(ValueError("Missing external port."))
             ELSE IF left # {} THEN Fail(ValueError("Unrecognised keys"))
             ELSE native_ports_from(items, i + 1,
                      ports \cup {Port(internal_port.val, external_port.val)})

\* _parse_link_configuration's loop, from item i on; a ValueError is wrapped
\* by the caller below.
RECURSIVE parse_link_configuration_from(_, _, _, _)
parse_link_configuration_from(application_name, items, i, links) ==
    IF i > Len(items) THEN Ok(links)
    ELSE LET link == items[i]
             typed == check_type(link, {"dict"}, "Link must be a dictionary",
                                 application_name)
             field(k) == link.d[VW(k)]
             missing(k) == VW(k) \notin DOMAIN link.d
             local_type == check_type(field("local_port"), {"int"},
                               "Link's local port must be an int", application_name)
             remote_type == check_type(field("remote_port"), {"int"},
                               "Link's remote port must be an int", application_name)
             alias_type == check_type(field("alias"), StringTypes,
                               "Link alias must be a string", application_name)
             left == DOMAIN link.d \ {VW("local_port"), VW("remote_port"), VW("alias")}
         IN  IF typed.kind # "none" THEN Fail(typed)
             ELSE IF missing("local_port") THEN Fail(ValueError("Missing local port."))
             ELSE IF local_type.kind # "none" THEN Fail(local_type)
             ELSE IF missing("remote_port") THEN Fail(ValueError("Missing remote port."))
             ELSE IF remote_type.kind # "none" THEN Fail(remote_type)
             ELSE IF missing("alias") THEN Fail(ValueError("Missing alias."))
             ELSE IF alias_type.kind # "none" THEN Fail(alias_type)
             ELSE IF left # {} THEN Fail(ValueError("Unrecognised keys"))
             ELSE parse_link_configuration_from(application_name, items, i + 1,
                      links \cup {Link(field("local_port"), field("remote_port"),
                                       field("alias"))})

\* A ValueError re-raised as the ConfigurationError of one section of an
\* application's config ("Invalid ports specification." and the like).
wrap_section(application_name, section, e) ==
    IF e.kind = "ValueError"
    THEN [e EXCEPT !.kind = "ConfigurationError", !.app = application_name,
                   !.section = section]
    ELSE e

parse_link_configuration(application_name, config) ==
    LET typed == check_type(config, {"list"}, "'links' must be a list of dictionaries",
                            application_name)
        r == parse_link_configuration_from(application_name, config.l, 1, {})
    IN  IF typed.kind # "none" THEN Fail(typed)
        ELSE IF IsOk(r) THEN r
        ELSE Fail(wrap_section(application_name, "links", r.err))

\* os.path.isabs
isabs(s) == s # <<>> /\ s[1] = "/"

\* The volume block: the AttachedVolume, or the ValueError raised inside it.
native_volume(application_name, configured_volume, is_lenient) ==
    IF configured_volume.t # "dict"
    THEN Fail(ValueError("Unexpected value"))
    ELSE IF VW("mountpoint") \notin DOMAIN configured_volume.d
    THEN Fail(ValueError("Missing mountpoint."))
    ELSE LET mountpoint == configured_volume.d[VW("mountpoint")]
         IN  IF is_lenient /\ mountpoint.t = "none"
             THEN Ok(AttachedVolume(application_name, NoPath))
             ELSE IF ~IsInstance(mountpoint, {"str"})
             THEN Fail(ValueError("Mountpoint contains non-ASCII (unsupported)."))
             ELSE IF ~isabs(mountpoint.s)
             THEN Fail(ValueError("Mountpoint is not an absolute path."))
             ELSE IF DOMAIN configured_volume.d # {VW("mountpoint")}
             THEN Fail(ValueError("Unrecognised keys"))
             ELSE Ok(AttachedVolume(application_name, FilePath(mountpoint.s)))

\* _parse_environment_config: a falsy 'environment' is returned as it is.
parse_environment_config(application_name, config) ==
    LET environment == IF VW("environment") \in DOMAIN config.d
                       THEN config.d[VW("environment")] ELSE Nil
        typed == check_type(environment, {"dict"},
                     "'environment' must be a dictionary of key/value pairs",
                     application_name)
        bad_keys == {k \in DOMAIN environment.d : ~IsInstance(k, StringTypes)}
        bad_values == {k \in DOMAIN environment.d :
                          ~IsInstance(environment.d[k], StringTypes)}
    IN  IF ~Truthy(environment)
        THEN Ok(IF environment.t = "none" THEN NoEnvironment
                ELSE EnvironmentRaw(environment))
        ELSE IF typed.kind # "none" THEN Fail(typed)
        ELSE IF bad_keys # {}
        THEN Fail(check_type(CHOOSE k \in bad_keys : TRUE, StringTypes,
                      "Environment variable name must be a string", application_name))
        ELSE IF bad_values # {}
        THEN Fail(check_type(environment.d[CHOOSE k \in bad_values : TRUE], StringTypes,
                      "Environment variable must be a string", application_name))
        ELSE Ok(EnvironmentSet({<<k, environment.d[k]>> : k \in DOMAIN environment.d}))

\* One turn of the loop of _applications_from_flocker_configuration, for the
\* item (application_name, config):
\*   err     the exception that leaves the loop, if any
\*   app     the Application stored in applications (err.kind = "none")
\*   config  the item's config as the turn leaves it: every pop takes its key
\*           out of the caller's mapping
native_application(application_name, config, is_lenient) ==
    LET has(c, k) == c.t = "dict" /\ VW(k) \in DOMAIN c.d
        take(c, k) == IF has(c, k) THEN VDict(Without(c.d, VW(k))) ELSE c
        image_name == pop(config, VW("image"))
        config1 == take(config, "image")
        image == DockerImage_from_string(image_name.val)
        port_items == iterate(IF has(config1, "ports") THEN config1.d[VW("ports")]
                              ELSE VList(<<>>))
        config2 == take(config1, "ports")
        ports == IF IsOk(port_items) THEN native_ports_from(port_items.val, 1, {})
                 ELSE port_items
        links == parse_link_configuration(application_name,
                     IF has(config2, "links") THEN config2.d[VW("links")]
                     ELSE VList(<<>>))
        config3 == take(config2, "links")
        volume == IF has(config3, "volume")
                  THEN native_volume(application_name, config3.d[VW("volume")],
                                     is_lenient)
                  ELSE Ok(NoVolume)
        config4 == take(config3, "volume")
        environment == parse_environment_config(application_name, config4)
        config5 == take(config4, "environment")
        out(e, c, app) == [err |-> e, config |-> c, app |-> app]
    IN  IF image_name.err.kind = "KeyError"
        THEN out([AppError(application_name, "Missing value for key.")
                     EXCEPT !.value = VW("image")], config, NoApplication)
        ELSE IF ~IsOk(image_name) THEN out(image_name.err, config, NoApplication)
        ELSE IF ~IsOk(image)
        THEN out(wrap_section(application_name, "image", image.err), config1,
                 NoApplication)
        ELSE IF ~IsOk(ports)
        THEN out(wrap_section(application_name, "ports", ports.err), config2,
                 NoApplication)
        ELSE IF ~IsOk(links) THEN out(links.err, config3, NoApplication)
        ELSE IF ~IsOk(volume)
        THEN out(wrap_section(application_name, "volume", volume.err), config4,
                 NoApplication)
        ELSE IF ~IsOk(environment) THEN out(environment.err, config5, NoApplication)
        ELSE IF DOMAIN config5.d # {}
        THEN out(AppError(application_name, "Unrecognised keys"), config5,
                 NoApplication)
        ELSE out(NoError, config5,
                 Application(application_name, image.val, volume.val, ports.val,
                             links.val, environment.val))

-----------------------------------------------------------------------------
(* Configuration._deployment_from_configuration *)

\* `key in container` for a decoded value: a dict looks among its keys, a list
\* among its items, a str among its words; other values are not iterable.
contains(container, key) ==
    CASE container.t = "dict" -> Ok(key \in DOMAIN container.d)
      [] container.t = "list" ->
            Ok(\E i \in DOMAIN container.l : container.l[i] = key)
      [] container.t \in StringTypes ->
            Ok(\E i \in DOMAIN container.s : W(container.s[i]) = key.s)
      [] OTHER -> Fail(Raise("TypeError", "argument is not iterable"))

\* container[key] of a value that `contains` the key: only a dict has it.
subscript(container, key) ==
    IF container.t = "dict" THEN Ok(container.d[key])
    ELSE Fail(Raise("TypeError", "indices must be integers"))

\* value != 1 in Python: True equals 1.
is_one(value) == value.t \in {"int", "bool"} /\ value.n = 1

\* Mutant (C11): the value of 'version' is not looked at.
top_level_checks_any_version(configuration, required, what) ==
    LET has_required == contains(configuration, VW(required))
        has_version == contains(configuration, VW("version"))
    IN  IF ~IsOk(has_required) THEN has_required.err
        ELSE IF ~has_required.val
        THEN [Raise("ConfigurationError", "Missing required key.")
                 EXCEPT !.value = VW(required), !.section = what]
        ELSE IF ~has_version.val
        THEN [Raise("ConfigurationError", "Missing 'version' key.")
                 EXCEPT !.section = what]
        ELSE NoError

\* The checks of a top-level mapping that both dialects share: the required
\* key, 'version', and version == 1. what: "Application" | "Deployment".
top_level_checks(configuration, required, what) ==
    LET has_required == contains(configuration, VW(required))
        has_version == contains(configuration, VW("version"))
        version == subscript(configuration, VW("version"))
    IN  IF ~IsOk(has_required) THEN has_required.err
        ELSE IF ~has_required.val
        THEN [Raise("ConfigurationError", "Missing required key.")
                 EXCEPT !.value = VW(required), !.section = what]
        ELSE IF ~has_version.val
        THEN [Raise("ConfigurationError", "Missing 'version' key.")
                 EXCEPT !.section = what]
        ELSE IF ~IsOk(version) THEN version.err
        ELSE IF ~is_one(version.val)
        THEN [Raise("ConfigurationError", "Incorrect version specified.")
                 EXCEPT !.section = what]
        ELSE NoError

\* One turn of the loop over deployment_configuration['nodes']: the Node of
\* hostname, or the exception raised.
RECURSIVE node_applications_from(_, _, _, _, _)
node_applications_from(hostname, items, i, all_applications, node_applications) ==
    IF i > Len(items) THEN Ok(Node(hostname, node_applications))
    ELSE LET name == items[i]
         IN  IF name.t \in {"list", "dict"}
             THEN Fail(Raise("TypeError", "unhashable type"))
             ELSE IF name \notin DOMAIN all_applications
             THEN Fail([Raise("ConfigurationError", "Unrecognised application name")
                           EXCEPT !.host = hostname, !.app = name])
             ELSE node_applications_from(hostname, items, i + 1, all_applications,
                      node_applications \cup {all_applications[name]})

\* Mutant (C6): only the first listed application is put on the node.
deployment_node_first(hostname, application_names, all_applications) ==
    IF ~IsInstance(application_names, {"list"})
    THEN Fail([Raise("ConfigurationError", "Wrong value type. Should be list.")
                  EXCEPT !.host = hostname, !.value = VW(TypeName(application_names))])
    ELSE LET r == node_applications_from(hostname, application_names.l, 1,
                                         all_applications, {})
         IN  IF ~IsOk(r) \/ application_names.l = <<>> THEN r
             ELSE Ok(Node(hostname, {all_applications[application_names.l[1]]}))

\* Mutant (C7): a listed name that is no application is passed over.
deployment_node_skip(hostname, application_names, all_applications) ==
    IF ~IsInstance(application_names, {"list"})
    THEN Fail([Raise("ConfigurationError", "Wrong value type. Should be list.")
                  EXCEPT !.host = hostname, !.value = VW(TypeName(application_names))])
    ELSE node_applications_from(hostname,
             SelectSeq(application_names.l,
                       LAMBDA x : x.t \in {"list", "dict"}
                                     \/ x \in DOMAIN all_applications),
             1, all_applications, {})

deployment_node(hostname, application_names, all_applications) ==
    IF ~IsInstance(application_names, {"list"})
    THEN Fail([Raise("ConfigurationError", "Wrong value type. Should be list.")
                  EXCEPT !.host = hostname, !.value = VW(TypeName(application_names))])
    ELSE node_applications_from(hostname, application_names.l, 1,
                                all_applications, {})

-----------------------------------------------------------------------------
(* configuration_to_yaml *)

\* The list a loop over a set fills, in the order the set is visited.
ListOf(S) == IF S = {} THEN <<>> ELSE CHOOSE q \in Perms(S) : TRUE

\* result[application.name] for one Application.
application_to_yaml(application) ==
    LET ports == ListOf(application.ports)
        links == ListOf(application.links)
        port_item(p) == VDict((VW("internal") :> p.internal_port)
                              @@ (VW("external") :> p.external_port))
        link_item(k) == VDict((VW("local_port") :> k.local_port)
                              @@ (VW("remote_port") :> k.remote_port)
                              @@ (VW("alias") :> k.alias))
        base == (VW("image") :> VW("unknown"))
                @@ (VW("ports") :> VList([i \in DOMAIN ports |-> port_item(ports[i])]))
        with_links == IF application.links # {}
                      THEN base @@ (VW("links") :>
                               VList([i \in DOMAIN links |-> link_item(links[i])]))
                      ELSE base
    IN  VDict(IF application.volume.present
              THEN with_links @@ (VW("volume") :> VDict(VW("mountpoint") :> Nil))
              ELSE with_links)

\* The mapping configuration_to_yaml hands to yaml.safe_dump. Of two
\* Applications of one name the mapping keeps one.
configuration_to_yaml(apps) ==
    VDict((VW("version") :> VInt(1))
          @@ (VW("applications") :>
                 VDict([name \in {a.name : a \in apps} |->
                           application_to_yaml(CHOOSE a \in apps : a.name = name)])))

-----------------------------------------------------------------------------
(* The calls, step by step *)

Running == [status |-> "running", err |-> NoError, deployment |-> Deployment({})]
Raised(e) == [status |-> "raised", err |-> e, deployment |-> Deployment({})]
Returned(dep) == [status |-> "returned", err |-> NoError, deployment |-> dep]

\* FigConfiguration.__init__, called by _applications_from_configuration.
Construct ==
    /\ pc = "construct"
    /\ result.status = "running"
    /\ IF appConfig.t # "dict"
       THEN /\ pc' = pc
            /\ result' = Raised(Raise("ConfigurationError",
                              "Application configuration must be a dictionary"))
            /\ UNCHANGED names
       ELSE /\ pc' = "detect"
            /\ names' \in Perms(DOMAIN appConfig.d)
            /\ UNCHANGED result
    /\ validated' = FALSE
    /\ applications' = EmptyMap
    /\ application_links' = EmptyMap
    /\ UNCHANGED <<mode, lenient, appConfig, appInput, depConfig, current,
                   yamlApps, scan, hosts, host, nodes>>
    /\ UNCHANGED validation

\* fig.is_valid_format() in _applications_from_configuration, and the choice
\* of the front end; _parse finds _validated set and starts its loop.
Detect ==
    /\ pc = "detect"
    /\ result.status = "running"
    /\ LET r == is_valid_format(appConfig, names)
       IN  /\ validated' = r.validated
           /\ IF r.err.kind # "none"
              THEN pc' = pc /\ result' = Raised(r.err) /\ UNCHANGED scan
              ELSE IF r.validated
              THEN pc' = "parse" /\ scan' = names /\ UNCHANGED result
              ELSE pc' = "native" /\ UNCHANGED <<scan, result>>
    /\ UNCHANGED <<mode, lenient, appConfig, appInput, depConfig, current,
                   yamlApps, names, applications, application_links, hosts, host, nodes>>
    /\ UNCHANGED validation

\* Mutant (C10): an application that fails is passed over and the loop goes on.
ParseApplication_continue ==
    /\ pc = "parse"
    /\ result.status = "running"
    /\ scan # <<>>
    /\ LET application_name == Head(scan)
           r == parse_application(application_name, appConfig.d[application_name],
                                  names)
           links == IF r.linked
                    THEN (application_name :> r.recorded) @@ application_links
                    ELSE application_links
       IN  /\ appConfig' = VDict([appConfig.d EXCEPT ![application_name] = r.config])
           /\ application_links' = links
           /\ applications' = IF r.err.kind # "none" THEN applications
                               ELSE (application_name :> r.app) @@ applications
           /\ UNCHANGED result
           /\ IF Tail(scan) # <<>>
              THEN pc' = "parse" /\ scan' = Tail(scan)
              ELSE pc' = "link" /\ scan' \in Perms(DOMAIN links)
    /\ UNCHANGED <<mode, lenient, appInput, depConfig, current, yamlApps, names,
                   validated, hosts, host, nodes>>
    /\ UNCHANGED validation

\* One turn of _parse's loop; after the last one _link_applications starts.
ParseApplication ==
    /\ pc = "parse"
    /\ result.status = "running"
    /\ scan # <<>>
    /\ LET application_name == Head(scan)
           r == parse_application(application_name, appConfig.d[application_name],
                                  names)
           links == IF r.linked
                    THEN (application_name :> r.recorded) @@ application_links
                    ELSE application_links
       IN  /\ appConfig' = VDict([appConfig.d EXCEPT ![application_name] = r.config])
           /\ application_links' = links
           /\ IF r.err.kind # "none"
              THEN /\ pc' = pc
                   /\ result' = Raised(r.err)
                   /\ UNCHANGED <<applications, scan>>
              ELSE /\ applications' = (application_name :> r.app) @@ applications
                   /\ UNCHANGED result
                   /\ IF Tail(scan) # <<>>
                      THEN pc' = "parse" /\ scan' = Tail(scan)
                      ELSE pc' = "link" /\ scan' \in Perms(DOMAIN links)
    /\ UNCHANGED <<mode, lenient, appInput, depConfig, current, yamlApps, names,
                   validated, hosts, host, nodes>>
    /\ UNCHANGED validation

\* Mutant (C20): links are resolved against what was parsed before the linking
\* application was visited, as a single pass would do.
LinkApplication_visited ==
    /\ pc = "link"
    /\ result.status = "running"
    /\ scan # <<>>
    /\ LET application_name == Head(scan)
           at(a) == CHOOSE i \in DOMAIN names : names[i] = a
           earlier == [a \in DOMAIN applications |->
                          IF at(a) < at(application_name) THEN applications[a]
                          ELSE [applications[a] EXCEPT !.ports = {}]]
           r == link_application(application_links[application_name], earlier)
       IN  IF ~IsOk(r)
           THEN /\ pc' = pc
                /\ result' = Raised(r.err)
                /\ UNCHANGED <<applications, scan>>
           ELSE /\ applications' =
                       [applications EXCEPT ![application_name].links = r.val]
                /\ scan' = Tail(scan)
                /\ pc' = IF Tail(scan) # <<>> THEN "link" ELSE "applications"
                /\ UNCHANGED result
    /\ UNCHANGED <<mode, lenient, appConfig, appInput, depConfig, current,
                   yamlApps, names, validated, application_links, hosts, host, nodes>>
    /\ UNCHANGED validation

\* One turn of _link_applications' loop over _application_links.items().
LinkApplication ==
    /\ pc = "link"
    /\ result.status = "running"
    /\ scan # <<>>
    /\ LET application_name == Head(scan)
           r == link_application(application_links[application_name], applications)
       IN  IF ~IsOk(r)
           THEN /\ pc' = pc
                /\ result' = Raised(r.err)
                /\ UNCHANGED <<applications, scan>>
           ELSE /\ applications' =
                       [applications EXCEPT ![application_name].links = r.val]
                /\ scan' = Tail(scan)
                /\ pc' = IF Tail(scan) # <<>> THEN "link" ELSE "applications"
                /\ UNCHANGED result
    /\ UNCHANGED <<mode, lenient, appConfig, appInput, depConfig, current,
                   yamlApps, names, validated, application_links, hosts, host, nodes>>
    /\ UNCHANGED validation

\* _deployment_from_configuration up to its loop.
DeploymentTop ==
    /\ pc = "applications"
    /\ result.status = "running"
    /\ mode = "model"
    /\ LET e == top_level_checks(depConfig, "nodes", "Deployment")
           node_map == subscript(depConfig, VW("nodes")).val
       IN  IF e.kind # "none"
           THEN pc' = pc /\ result' = Raised(e) /\ UNCHANGED scan
           ELSE IF node_map.t # "dict"
           THEN /\ pc' = pc
                /\ result' = Raised(Raise("AttributeError", "items"))
                /\ UNCHANGED scan
           ELSE /\ scan' \in Perms(DOMAIN node_map.d)
                /\ pc' = IF DOMAIN node_map.d # {} THEN "nodes" ELSE "return"
                /\ UNCHANGED result
    /\ nodes' = {}
    /\ UNCHANGED <<mode, lenient, appConfig, appInput, depConfig, current,
                   yamlApps, names, validated, applications, application_links,
                   hosts, host>>
    /\ UNCHANGED validation

\* One turn of the loop over deployment_configuration['nodes'].items().
DeploymentNode ==
    /\ pc = "nodes"
    /\ result.status = "running"
    /\ scan # <<>>
    /\ LET hostname == Head(scan)
           r == deployment_node(hostname, depConfig.d[VW("nodes")].d[hostname],
                                applications)
       IN  IF ~IsOk(r)
           THEN /\ pc' = pc
                /\ result' = Raised(r.err)
                /\ UNCHANGED <<nodes, scan>>
           ELSE /\ nodes' = nodes \cup {r.val}
                /\ scan' = Tail(scan)
                /\ pc' = IF Tail(scan) # <<>> THEN "nodes" ELSE "return"
                /\ UNCHANGED result
    /\ UNCHANGED <<mode, lenient, appConfig, appInput, depConfig, current,
                   yamlApps, names, validated, applications, application_links,
                   hosts, host>>
    /\ UNCHANGED validation

\* return Deployment(nodes=frozenset(nodes))
ReturnDeployment ==
    /\ pc = "return"
    /\ result.status = "running"
    /\ pc' = "done"
    /\ result' = Returned(Deployment(nodes))
    /\ UNCHANGED <<mode, lenient, appConfig, appInput, depConfig, current,
                   yamlApps, names, validated, applications, application_links,
                   scan, hosts, host, nodes>>
    /\ UNCHANGED validation

\* _applications_from_flocker_configuration up to its loop.
NativeTop ==
    /\ pc = "native"
    /\ result.status = "running"
    /\ LET e == top_level_checks(appConfig, "applications", "Application")
           apps == appConfig.d[VW("applications")]
       IN  IF e.kind # "none"
           THEN pc' = pc /\ result' = Raised(e) /\ UNCHANGED scan
           ELSE IF apps.t # "dict"
           THEN /\ pc' = pc
                /\ result' = Raised(Raise("AttributeError", "items"))
                /\ UNCHANGED scan
           ELSE /\ scan' \in Perms(DOMAIN apps.d)
                /\ pc' = IF DOMAIN apps.d # {} THEN "native_applications"
                         ELSE "applications"
                /\ UNCHANGED result
    /\ UNCHANGED <<mode, lenient, appConfig, appInput, depConfig, current,
                   yamlApps, names, validated, applications, application_links,
                   hosts, host, nodes>>
    /\ UNCHANGED validation

\* One turn of the loop of _applications_from_flocker_configuration.
NativeApplication ==
    /\ pc = "native_applications"
    /\ result.status = "running"
    /\ scan # <<>>
    /\ LET application_name == Head(scan)
           apps == appConfig.d[VW("applications")]
           r == native_application(application_name, apps.d[application_name],
                                   lenient)
       IN  /\ appConfig' = VDict([appConfig.d EXCEPT ![VW("applications")] =
                               VDict([apps.d EXCEPT ![application_name] = r.config])])
           /\ IF r.err.kind # "none"
              THEN /\ pc' = pc
                   /\ result' = Raised(r.err)
                   /\ UNCHANGED <<applications, scan>>
              ELSE /\ applications' = (application_name :> r.app) @@ applications
                   /\ scan' = Tail(scan)
                   /\ pc' = IF Tail(scan) # <<>> THEN "native_applications"
                            ELSE "applications"
                   /\ UNCHANGED result
    /\ UNCHANGED <<mode, lenient, appInput, depConfig, current, yamlApps, names,
                   validated, application_links, hosts, host, nodes>>
    /\ UNCHANGED validation

\* configuration_to_yaml(yamlApps); flocker-deploy decodes the YAML of every
\* node (the decoder gives back the mapping that was dumped) and hands the
\* mappings, keyed by hostname, to current_from_configuration.
ConfigurationToYaml ==
    /\ pc = "yaml"
    /\ result.status = "running"
    /\ current' = VDict(VW("node1") :> configuration_to_yaml(yamlApps))
    /\ pc' = "current"
    /\ UNCHANGED <<mode, lenient, appConfig, appInput, depConfig, yamlApps, names,
                   validated, applications, application_links, scan, hosts, host,
                   nodes, result>>
    /\ UNCHANGED validation

\* current_from_configuration up to its loop.
CurrentStart ==
    /\ pc = "current"
    /\ result.status = "running"
    /\ IF current.t # "dict"
       THEN /\ pc' = pc
            /\ result' = Raised(Raise("AttributeError", "items"))
            /\ UNCHANGED hosts
       ELSE /\ hosts' \in Perms(DOMAIN current.d)
            /\ pc' = IF DOMAIN current.d # {} THEN "next_host" ELSE "return"
            /\ UNCHANGED result
    /\ nodes' = {}
    /\ UNCHANGED <<mode, lenient, appConfig, appInput, depConfig, current,
                   yamlApps, names, validated, applications, application_links,
                   scan, host>>
    /\ UNCHANGED validation

\* The loop of current_from_configuration takes its next item and calls
\* configuration._applications_from_configuration(applications).
CurrentHost ==
    /\ pc = "next_host"
    /\ result.status = "running"
    /\ hosts # <<>>
    /\ host' = Head(hosts)
    /\ appConfig' = current.d[Head(hosts)]
    /\ pc' = "construct"
    /\ UNCHANGED <<mode, lenient, appInput, depConfig, current, yamlApps, names,
                   validated, applications, application_links, scan, hosts, nodes,
                   result>>
    /\ UNCHANGED validation

\* nodes.append(Node(hostname, frozenset(node_applications.values())))
CurrentNode ==
    /\ pc = "applications"
    /\ result.status = "running"
    /\ mode # "model"
    /\ nodes' = nodes \cup
                    {Node(host, {applications[a] : a \in DOMAIN applications})}
    /\ hosts' = Tail(hosts)
    /\ pc' = IF Tail(hosts) # <<>> THEN "next_host" ELSE "return"
    /\ UNCHANGED <<mode, lenient, appConfig, appInput, depConfig, current,
                   yamlApps, names, validated, applications, application_links,
                   scan, host, result>>
    /\ UNCHANGED validation

-----------------------------------------------------------------------------
(* flocker/ca/functional/test_validation.py: a validating client against a *)
(* server that presents one of the credentials of two certificate sets     *)

EXPECTED_STRING == <<"Mr. Watson, come here;", "I want to see you.">>

\* A certificate: the authority whose root credential signed it, and what it
\* certifies ("root" | "control" | "user" | "node").
Certificate(ca, kind) == [ca |-> ca, kind |-> kind]
NoCertificate == Certificate("", "")

\* CredentialSet.create(): a root credential and a control, a user and a node
\* credential initialized with that root.
CredentialSet_create(ca) ==
    [root |-> Certificate(ca, "root"), control |-> Certificate(ca, "control"),
     user |-> Certificate(ca, "user"), node |-> Certificate(ca, "node")]

\* get_sets() gives the same pair of sets to every test; setUp names them.
get_sets == <<CredentialSet_create("a"), CredentialSet_create("b")>>
good_ca == get_sets[1]
another_ca == get_sets[2]

\* ControlServicePolicy and the check its connection creator makes of the
\* certificate a server presents: signed by the policy's authority, and the
\* certificate of a control service.
ControlServicePolicy(ca_certificate, client_certificate) ==
    [ca_certificate |-> ca_certificate, client_certificate |-> client_certificate]
creatorForNetloc(policy, certificate) ==
    /\ certificate.ca = policy.ca_certificate.ca
    /\ certificate.kind = "control"

\* Mutant (C18): the client is given the root certificate of the other set.
validating_client_endpoint_fixture_other(ca_set) ==
    ControlServicePolicy(another_ca.root, ca_set.user)

\* The fixture of ControlServicePolicyValidationTests.
validating_client_endpoint_fixture(ca_set) ==
    ControlServicePolicy(ca_set.root, ca_set.user)

good_certificate_name == "control"
Credentials ==
    {get_sets[i][kind] : i \in DOMAIN get_sets, kind \in {"control", "user", "node"}}

\* The four tests of ValidationTests, and every use of its two assertions.
Tests ==
    {[credential |-> good_ca[good_certificate_name], asserted |-> "validates"],
     [credential |-> another_ca[good_certificate_name],
      asserted |-> "does_not_validate"]}
    \cup {[credential |-> another_ca[bad_name], asserted |-> "does_not_validate"] :
             bad_name \in {"user", "node", "control"} \ {good_certificate_name}}
Assertions ==
    Tests \cup {[credential |-> c, asserted |-> a] :
                   c \in Credentials, a \in {"validates", "does_not_validate"}}

\* assert_validates: the server listens with the credential.
listen ==
    /\ pc = "listen"
    /\ pc' = "connect"
    /\ UNCHANGED parsing
    /\ UNCHANGED validation

\* connectProtocol(validating_endpoint, client_protocol): the handshake.
connectProtocol ==
    /\ pc = "connect"
    /\ IF creatorForNetloc(validating_client_endpoint_fixture(good_ca), credential)
       THEN handshake' = "completed" /\ pc' = "connectionMade"
       ELSE handshake' = "rejected" /\ pc' = "connectionLost"
    /\ UNCHANGED parsing
    /\ UNCHANGED <<credential, asserted, wire, buffer, client_result>>

\* SendingProtocol.connectionMade
connectionMade ==
    /\ pc = "connectionMade"
    /\ wire' = EXPECTED_STRING
    /\ pc' = "dataReceived"
    /\ UNCHANGED parsing
    /\ UNCHANGED <<credential, asserted, handshake, buffer, client_result>>

\* ReceivingProtocol.dataReceived, with some of what is on the wire.
dataReceived ==
    /\ pc = "dataReceived"
    /\ \E k \in 1..Len(wire) :
          LET data == SubSeq(wire, 1, k)
          IN  /\ buffer' = buffer \o data
              /\ wire' = SubSeq(wire, k + 1, Len(wire))
              /\ client_result' = IF buffer \o data = EXPECTED_STRING THEN "fired"
                                  ELSE client_result
              /\ pc' = IF k = Len(wire) THEN "connectionLost" ELSE "dataReceived"
    /\ UNCHANGED parsing
    /\ UNCHANGED <<credential, asserted, handshake>>

\* ReceivingProtocol.connectionLost
connectionLost ==
    /\ pc = "connectionLost"
    /\ client_result' = IF client_result = "pending" THEN "failed" ELSE client_result
    /\ pc' = "tested"
    /\ UNCHANGED parsing
    /\ UNCHANGED <<credential, asserted, handshake, wire, buffer>>

\* Whether the test passes: assert_validates wants the Deferred fired,
\* assert_does_not_validate wants it failed.
passes ==
    \/ asserted = "validates" /\ client_result = "fired"
    \/ asserted = "does_not_validate" /\ client_result = "failed"

-----------------------------------------------------------------------------
(* The configurations the calls are run on *)

\* The longest list of ports, links or application names in a configuration.
MaxLen == 2

SeqsUpTo(S, n) == UNION {[1..k -> S] : k \in 0..n}

\* All mappings with keys among K and values in V.
MapsOver(K, V) == UNION {[D -> V] : D \in SUBSET K}

\* An optional key of a mapping: Absent stands for "the key is not there".
Absent == [Nil EXCEPT !.t = "absent"]
Field(k, v) == IF v.t = "absent" THEN EmptyMap ELSE (VW(k) :> v)

Image == VW("image") :> VW("nginx")

\* Dialect detection: entries with none, one or both of the identifying keys,
\* and entries that are no mapping.
DetectEntries ==
    {VW("nginx"), VList(<<VW("image")>>), VDict(EmptyMap), VDict(Image),
     VDict(VW("build") :> VW("dir")),
     VDict(Image @@ (VW("build") :> VW("dir")))}

DetectNames == {VW("web"), VW("db"), VW("cache")}

DetectConfigs == {VDict(m) : m \in MapsOver(DetectNames, DetectEntries)}

\* Fig applications with ports and links: one application of the mapping (the
\* linker) has a 'links' list, every application has a 'ports' list or none.
FigNames == {VW("web"), VW("db")}

PortStrings == {VStr(<<"80", ":", "8080">>), VStr(<<"5432", ":", "5432">>)}

LinkStrings ==
    {VW("db"), VStr(<<"web", ":", "alias">>), VW("nosuch"),
     VStr(<<"db", ":", "a", ":", "b">>)}

PortOptions == {Absent} \cup {VList(q) : q \in SeqsUpTo(PortStrings, MaxLen)}
LinkOptions == {Absent} \cup {VList(q) : q \in SeqsUpTo(LinkStrings, MaxLen)}

FigApplication(ports, links) ==
    VDict(Image @@ Field("ports", ports) @@ Field("links", links))

LinkerPorts ==
    {Absent, VList(<<VStr(<<"80", ":", "8080">>), VStr(<<"5432", ":", "5432">>)>>)}

FigConfigs ==
    {VDict([n \in FigNames |->
               IF n = linker THEN FigApplication(own, links)
               ELSE FigApplication(ports, Absent)]) :
        ports \in PortOptions, own \in LinkerPorts, links \in LinkOptions,
        linker \in FigNames}

\* Fig applications one field of which is out of the ordinary.
FigOddFields ==
    {Field("volumes", VList(<<>>)), Field("volumes", VList(<<VStr(<<"/", "data">>)>>)),
     Field("volumes", VList(<<VW("a"), VW("b")>>)), Field("volumes", VW("a")),
     Field("volumes", VList(<<VW("data")>>)), Field("volumes", VList(<<VInt(1)>>)),
     Field("ports", VList(<<VInt(80)>>)), Field("ports", VList(<<VW("80")>>)),
     Field("ports", VList(<<VStr(<<"80", ":", "http">>)>>)),
     Field("ports", VList(<<VStr(<<"80", ":", "8080">>), VStr(<<"http", ":", "80">>)>>)),
     Field("ports", VList(<<VStr(<<"80", ":", "8080", ":", "5432">>)>>)),
     Field("links", VList(<<VInt(1)>>)), Field("links", VW("db")),
     Field("environment", VDict(VW("KEY") :> VW("value"))),
     Field("environment", VDict(VW("KEY") :> VInt(1))),
     Field("environment", VDict(VInt(1) :> VW("value"))),
     Field("environment", VDict(EmptyMap)),
     Field("environment", VList(<<>>)),
     Field("image", VInt(1)), Field("image", VStr(<<":", "tag">>)),
     Field("command", VW("run")), Field("other", VW("x"))}

FigOddConfigs ==
    {VDict((VW("web") :> VDict(odd @@ Image)) @@ (VW("db") :> VDict(Image))) :
        odd \in FigOddFields}

\* Native application configurations.
Native(apps) == VDict((VW("version") :> VInt(1)) @@ (VW("applications") :> apps))

NativePort(internal, external) ==
    VDict((VW("internal") :> VInt(internal)) @@ (VW("external") :> VInt(external)))

NativeLink(local, remote, alias) ==
    VDict((VW("local_port") :> VInt(local)) @@ (VW("remote_port") :> VInt(remote))
          @@ (VW("alias") :> VW(alias)))

NativeApplications ==
    {VDict(Image), VDict(EmptyMap), VW("nginx"), VList(<<>>),
     VDict(Image @@ Field("ports", VList(<<NativePort(80, 8080)>>))),
     VDict(Image @@ Field("ports", VList(<<VInt(80)>>))),
     VDict(Image @@ Field("ports", VInt(80))),
     VDict(Image @@ Field("links", VList(<<NativeLink(5432, 5432, "db")>>))),
     VDict(Image @@ Field("links", VList(<<VW("db")>>))),
     VDict(Image @@ Field("volume", VDict(VW("mountpoint") :> VStr(<<"/", "data">>)))),
     VDict(Image @@ Field("volume", VDict(VW("mountpoint") :> Nil))),
     VDict(Image @@ Field("volume", VDict(VW("mountpoint") :> VW("data")))),
     VDict(Image @@ Field("volume", VW("data"))),
     VDict(Image @@ Field("volume", VDict((VW("mountpoint") :> VStr(<<"/", "data">>))
                                          @@ (VW("size") :> VInt(1))))),
     VDict(Image @@ Field("volume", VDict((VW("mountpoint") :> Nil)
                                          @@ (VW("size") :> VInt(1))))),
     VDict(Image @@ Field("environment", VDict(VW("KEY") :> VW("value")))),
     VDict(Image @@ Field("environment", VList(<<VW("KEY")>>))),
     VDict(Image @@ Field("environment", VDict(VW("KEY") :> VInt(1)))),
     VDict(Image @@ Field("environment", VDict(EmptyMap))),
     VDict(Image @@ Field("environment", VList(<<>>))),
     VDict(Image @@ Field("environment", VStr(<<>>))),
     VDict(Image @@ Field("environment", VInt(0))),
     VDict(Image @@ Field("environment", VBool(FALSE))),
     VDict(Image @@ Field("other", VW("x"))),
     VDict(Field("image", VInt(1))), VDict(Field("image", VStr(<<":", "tag">>)))}

NativeNames == {VW("web"), VW("db")}

\* Native applications named after the identifying keys of the fig dialect.
KeyNames == {VW("image"), VW("build")}

NativeConfigs ==
    {Native(VDict(m)) : m \in MapsOver(NativeNames, NativeApplications)}
    \cup {Native(VDict(m)) : m \in MapsOver(KeyNames, {VDict(Image)})}
    \cup {Native(VList(<<>>)), Native(Nil),
          VDict(VW("version") :> VInt(1)),
          VDict(VW("applications") :> VDict(EmptyMap)),
          VDict((VW("version") :> VInt(2)) @@ (VW("applications") :> VDict(EmptyMap))),
          VList(<<>>), Nil}

\* Deployment configurations: per hostname a list of application names, or a
\* value that is no list.
Hostnames == {VW("node1"), VW("node2")}

ListedNames == {VW("web"), VW("db"), VW("nosuch")}

NodeOptions == {VW("web")} \cup {VList(q) : q \in SeqsUpTo(ListedNames, MaxLen)}

DeploymentConfigs ==
    {VDict((VW("version") :> VInt(1)) @@ (VW("nodes") :> VDict(m))) :
        m \in MapsOver(Hostnames, NodeOptions)}

OddDeploymentConfigs ==
    {VDict(Field("version", version)
           @@ (VW("nodes") :> VDict(VW("node1") :> VList(<<VW("web")>>)))) :
        version \in {VInt(2), VBool(TRUE), VW("1"), Absent}}
    \cup {VDict(VW("version") :> VInt(1)), VDict(EmptyMap), VList(<<>>), Nil,
          VDict((VW("version") :> VInt(1)) @@ (VW("nodes") :> VList(<<>>))),
          VDict((VW("version") :> VInt(1)) @@ (VW("nodes") :> Nil)),
          VDict((VW("version") :> VInt(1))
                @@ (VW("nodes") :> VDict(VW("node1") :> VList(<<VList(<<>>)>>))))}

\* A deployment of two nodes that lists 'web' and 'db'.
TwoNodes ==
    VDict((VW("version") :> VInt(1))
          @@ (VW("nodes") :> VDict((VW("node1") :> VList(<<VW("web")>>))
                                   @@ (VW("node2") :> VList(<<VW("db"), VW("web")>>)))))

\* Two valid applications, in each dialect.
FigWebDb ==
    VDict((VW("web") :> FigApplication(VList(<<VStr(<<"80", ":", "8080">>)>>),
                                      VList(<<VW("db")>>)))
          @@ (VW("db") :> FigApplication(VList(<<VStr(<<"5432", ":", "5432">>)>>),
                                        Absent)))

NativeWebDb ==
    Native(VDict((VW("web") :> VDict(Image @@ Field("ports",
                                       VList(<<NativePort(80, 8080)>>))))
                 @@ (VW("db") :> VDict(Image))))

\* Observed state, as current_from_configuration gets it: per hostname the
\* decoded output of configuration_to_yaml, or some other mapping or value.
Observed(application) == Native(VDict(VW("web") :> application))

CurrentNodeConfigs ==
    {Observed(VDict((VW("image") :> VW("unknown"))
                    @@ Field("ports", VList(<<NativePort(80, 8080)>>))
                    @@ Field("volume", VDict(VW("mountpoint") :> Nil)))),
     Observed(VDict((VW("image") :> VW("unknown")) @@ Field("ports", VList(<<>>)))),
     Observed(VDict((VW("image") :> VW("unknown"))
                    @@ Field("volume", VDict((VW("mountpoint") :> Nil)
                                             @@ (VW("size") :> VInt(1)))))),
     Observed(VDict((VW("image") :> VW("unknown"))
                    @@ Field("volume", VDict((VW("mountpoint") :> VStr(<<"/", "data">>))
                                             @@ (VW("size") :> VInt(1)))))),
     Observed(VDict((VW("image") :> VW("unknown"))
                    @@ Field("volume", VDict(EmptyMap)))),
     Observed(VDict(Field("ports", VList(<<>>)))),
     Native(VDict(VW("image") :> VDict((VW("image") :> VW("unknown"))
                                       @@ Field("ports", VList(<<>>))))),
     FigWebDb, VDict(EmptyMap), Nil}

CurrentConfigs ==
    {VDict(m) : m \in MapsOver(Hostnames, CurrentNodeConfigs)} \cup {Nil}

\* Application sets, as configuration_to_yaml gets them: at most one
\* Application per name.
YamlNames == {VW("web"), VW("image")}

YamlPorts == {Port(VInt(80), VInt(8080)), Port(VInt(5432), VInt(5432))}

YamlLinks ==
    {Link(VInt(5432), VInt(5432), VW("db")), Link(VInt(80), VInt(8080), VW("alias"))}

Nginx == [repository |-> W("nginx"), tag |-> W("latest")]

YamlApplications(name) ==
    {Application(name, Nginx, volume, ports, links, NoEnvironment) :
        volume \in {NoVolume, AttachedVolume(name, FilePath(<<"/", "data">>))},
        ports \in SUBSET YamlPorts, links \in SUBSET YamlLinks}

YamlSets ==
    UNION {{{f[n] : n \in D} : f \in {g \in [D -> UNION {YamlApplications(n) : n \in D}] :
                                          \A n \in D : g[n].name = n}} :
           D \in SUBSET YamlNames}

\* The arguments of the three public operations.
Call(m, app, dep, cur, apps) ==
    [mode |-> m, app |-> app, dep |-> dep, current |-> cur, yaml |-> apps]

ModelArguments ==
    {Call("model", app, TwoNodes, Nil, {}) :
        app \in DetectConfigs \cup FigConfigs \cup FigOddConfigs \cup NativeConfigs}
    \cup {Call("model", app, dep, Nil, {}) :
             app \in {FigWebDb, NativeWebDb},
             dep \in DeploymentConfigs \cup OddDeploymentConfigs}

CurrentArguments == {Call("current", Nil, Nil, cur, {}) : cur \in CurrentConfigs}

YamlArguments == {Call("yaml", Nil, Nil, Nil, apps) : apps \in YamlSets}

ValidationArguments == {Call("validate", Nil, Nil, Nil, {})}

-----------------------------------------------------------------------------
(* The specification *)

\* model_from_configuration is Configuration().model_from_configuration, and
\* current_from_configuration makes a Configuration(lenient=True).
Init ==
    /\ \E call \in ModelArguments \cup CurrentArguments \cup YamlArguments
                     \cup ValidationArguments :
          /\ mode = call.mode
          /\ appConfig = call.app
          /\ appInput = call.app
          /\ depConfig = call.dep
          /\ current = call.current
          /\ yamlApps = call.yaml
    /\ lenient = (mode # "model")
    /\ pc = CASE mode = "model" -> "construct"
               [] mode = "current" -> "current"
               [] mode = "yaml" -> "yaml"
               [] mode = "validate" -> "listen"
    /\ IF mode = "validate"
       THEN \E test \in Assertions :
               credential = test.credential /\ asserted = test.asserted
       ELSE credential = NoCertificate /\ asserted = ""
    /\ handshake = "none"
    /\ wire = <<>>
    /\ buffer = <<>>
    /\ client_result = "pending"
    /\ names = <<>>
    /\ validated = FALSE
    /\ applications = EmptyMap
    /\ application_links = EmptyMap
    /\ scan = <<>>
    /\ hosts = <<>>
    /\ host = Nil
    /\ nodes = {}
    /\ result = Running

Next ==
    \/ Construct
    \/ Detect
    \/ ParseApplication
    \/ LinkApplication
    \/ NativeTop
    \/ NativeApplication
    \/ DeploymentTop
    \/ DeploymentNode
    \/ ReturnDeployment
    \/ ConfigurationToYaml
    \/ CurrentStart
    \/ CurrentHost
    \/ CurrentNode
    \/ listen
    \/ connectProtocol
    \/ connectionMade
    \/ dataReceived
    \/ connectionLost

Spec == Init /\ [][Next]_vars

-----------------------------------------------------------------------------
(* Properties *)

\* An entry of the application mapping has key k (a value that is no mapping
\* has no keys).
HasKey(entry, k) == entry.t = "dict" /\ VW(k) \in DOMAIN entry.d
ExactlyOneIdentifier(entry) == HasKey(entry, "image") # HasKey(entry, "build")
BothIdentifiers(entry) == HasKey(entry, "image") /\ HasKey(entry, "build")

\* Dialect detection has run on appConfig: it raised, or it returned and the
\* call went on.
Detected ==
    /\ pc \notin {"yaml", "current", "next_host", "construct"}
    /\ pc = "detect" => result.status = "raised"
    /\ appConfig.t = "dict"
    /\ names \in Perms(DOMAIN appConfig.d)
ReturnedTrue == Detected /\ pc # "detect" /\ validated

\* The text of a link directive up to its first ':', and the text after it when
\* the directive has exactly one ':' (the target's name when it has none).
Colons(text) == {i \in DOMAIN text : text[i] = ":"}
TargetOf(directive) ==
    LET text == directive.s
    IN  IF Colons(text) = {} THEN text
        ELSE SubSeq(text, 1, (CHOOSE i \in Colons(text) :
                                 \A j \in Colons(text) : i <= j) - 1)
AliasOf(directive) ==
    LET text == directive.s
    IN  IF Cardinality(Colons(text)) = 1
        THEN SubSeq(text, (CHOOSE i \in Colons(text) : TRUE) + 1, Len(text))
        ELSE TargetOf(directive)

\* The link directives the configuration gives application a.
Directives(a) ==
    IF HasKey(appConfig.d[a], "links") /\ appConfig.d[a].d[VW("links")].t = "list"
    THEN appConfig.d[a].d[VW("links")].l
    ELSE <<>>
WellFormed(a) ==
    \A i \in DOMAIN Directives(a) :
        /\ Directives(a)[i].t \in StringTypes
        /\ Cardinality(Colons(Directives(a)[i].s)) <= 1

\* The fig front end has finished both passes on appConfig.
LinksDone == ReturnedTrue /\ pc \notin {"parse", "link"}

\* The parsed application whose name has the given text.
Named(text) == CHOOSE a \in DOMAIN applications : a.s = text

ExpectedLinks(a) ==
    UNION {{Link(p.internal_port, p.external_port,
                 [Directives(a)[i] EXCEPT !.s = AliasOf(Directives(a)[i])]) :
               p \in applications[Named(TargetOf(Directives(a)[i]))].ports} :
           i \in DOMAIN Directives(a)}

\* C4: after the second pass of the fig front end every application's link set
\* holds exactly one Link per link directive and per Port of the directive's
\* target (local_port the port's internal_port, remote_port its external_port,
\* alias the directive's alias, the target's name by default); a single
\* directive against a target of N ports gives N links and an application
\* without directives has no links.
C4_FigLinkSets ==
    LinksDone =>
        \A a \in DOMAIN applications :
            WellFormed(a) =>
                /\ applications[a].links = ExpectedLinks(a)
                /\ Len(Directives(a)) = 0 => applications[a].links = {}
                /\ Len(Directives(a)) = 1 =>
                       Cardinality(applications[a].links) =
                           Cardinality(applications[
                               Named(TargetOf(Directives(a)[1]))].ports)

\* C4 witness: both passes are done and an application with two directives, one
\* with an alias and one without, has four links to targets of two ports each.
C4_Witness ==
    /\ LinksDone
    /\ \E a \in DOMAIN applications :
           /\ WellFormed(a)
           /\ Len(Directives(a)) = 2
           /\ Cardinality(Colons(Directives(a)[1].s)) # Cardinality(Colons(Directives(a)[2].s))
           /\ Cardinality(applications[a].links) = 4

\* The message of the error for a link to an unknown application.
CouldNotBeMapped == "'links' value could not be mapped to any application"
UnknownTarget(a) ==
    \E i \in DOMAIN Directives(a) :
        /\ Directives(a)[i].t \in StringTypes
        /\ \A k \in DOMAIN appConfig.d : k.s # TargetOf(Directives(a)[i])

\* An application whose configuration has no fault that the first pass meets
\* before its link directives.
PlainLinker(a) ==
    /\ appConfig.d[a].t = "dict"
    /\ DOMAIN appConfig.d[a].d \subseteq {VW("image"), VW("ports"), VW("links")}
    /\ HasKey(appConfig.d[a], "image")
    /\ appConfig.d[a].d[VW("image")] = VW("nginx")
    /\ HasKey(appConfig.d[a], "ports") => appConfig.d[a].d[VW("ports")] \in PortOptions
    /\ \A i \in DOMAIN Directives(a) : Directives(a)[i].t \in StringTypes

\* C5: a fig link directive whose target is no key of the configuration mapping
\* fails the first pass with a ConfigurationError naming the linking
\* application, so the second pass never starts on such a configuration: while
\* it runs every recorded target is in the table of parsed applications and no
\* lookup fails.
C5_LinkTargetsExist ==
    /\ (ReturnedTrue /\ pc # "parse") =>
           /\ \A a \in DOMAIN appConfig.d : ~UnknownTarget(a)
           /\ result.err.kind # "KeyError"
    /\ (ReturnedTrue /\ pc = "link") =>
           \A a \in DOMAIN application_links :
               \A i \in DOMAIN application_links[a] :
                   application_links[a][i].target_application
                       \in DOMAIN applications
    /\ (ReturnedTrue /\ result.status = "raised"
            /\ result.err.msg = CouldNotBeMapped) =>
           /\ pc = "parse"
           /\ result.err.kind = "ConfigurationError"
           /\ result.err.app \in DOMAIN appConfig.d
           /\ UnknownTarget(result.err.app)
    /\ (ReturnedTrue /\ pc = "parse" /\ result.status = "raised"
            /\ UnknownTarget(Head(scan)) /\ PlainLinker(Head(scan))) =>
           /\ result.err.kind = "ConfigurationError"
           /\ result.err.msg = CouldNotBeMapped
           /\ result.err.app = Head(scan)

\* C5 witness: the first pass has failed on an application that links to a name
\* that is no key of the mapping, after another application passed.
C5_Witness ==
    /\ ReturnedTrue
    /\ pc = "parse"
    /\ result.status = "raised"
    /\ result.err.msg = CouldNotBeMapped
    /\ UnknownTarget(result.err.app)
    /\ applications # EmptyMap

\* deployment_configuration['nodes'] is a mapping.
HasNodeMap ==
    /\ depConfig.t = "dict"
    /\ VW("nodes") \in DOMAIN depConfig.d
    /\ depConfig.d[VW("nodes")].t = "dict"
NodeMap == depConfig.d[VW("nodes")].d
\* The names a hostname lists (none when its value is no list).
Listed(h) ==
    IF NodeMap[h].t = "list" THEN {NodeMap[h].l[i] : i \in DOMAIN NodeMap[h].l}
    ELSE {}
UnknownListed(h) == {x \in Listed(h) : x.t \in StringTypes /\ x \notin DOMAIN applications}

\* C6: the Deployment that model_from_configuration returns has exactly one
\* Node per hostname key of 'nodes', and the applications of each Node are
\* exactly the validated Applications whose names the hostname lists.
C6_OneNodePerHostname ==
    (mode = "model" /\ result.status = "returned") =>
        /\ HasNodeMap
        /\ \A h \in DOMAIN NodeMap :
               Cardinality({n \in result.deployment.nodes : n.hostname = h}) = 1
        /\ \A n \in result.deployment.nodes :
               /\ n.hostname \in DOMAIN NodeMap
               /\ Listed(n.hostname) \subseteq DOMAIN applications
               /\ n.applications = {applications[x] : x \in Listed(n.hostname)}

\* C6 witness: a Deployment of two Nodes is returned; one hostname lists two
\* applications, the other lists one application twice.
C6_Witness ==
    /\ mode = "model"
    /\ result.status = "returned"
    /\ Cardinality(result.deployment.nodes) = 2
    /\ \E n \in result.deployment.nodes :
           Len(NodeMap[n.hostname].l) = 2 /\ Cardinality(n.applications) = 2
    /\ \E n \in result.deployment.nodes :
           Len(NodeMap[n.hostname].l) = 2 /\ Cardinality(n.applications) = 1

Unrecognised == "Unrecognised application name"

\* Every hostname's value is a list of strings.
ListsOfNames ==
    \A h \in DOMAIN NodeMap :
        /\ NodeMap[h].t = "list"
        /\ \A x \in Listed(h) : x.t \in StringTypes

\* C7: when a hostname lists a name that is no key of the validated application
\* mapping, model_from_configuration returns no Deployment; its failure on such
\* a listing is a ConfigurationError that names the hostname and the unknown
\* name.
C7_UnknownApplicationName ==
    (mode = "model" /\ HasNodeMap) =>
        /\ (pc \in {"nodes", "return", "done"}
                /\ \E h \in DOMAIN NodeMap : UnknownListed(h) # {})
               => /\ result.status # "returned"
                  /\ pc = "nodes"
        /\ (result.status = "raised" /\ result.err.msg = Unrecognised) =>
               /\ pc = "nodes"
               /\ result.err.kind = "ConfigurationError"
               /\ result.err.host \in DOMAIN NodeMap
               /\ result.err.app \in UnknownListed(result.err.host)
        /\ (pc = "nodes" /\ result.status = "raised" /\ ListsOfNames) =>
               /\ result.err.kind = "ConfigurationError"
               /\ result.err.msg = Unrecognised
               /\ result.err.host = Head(scan)
               /\ result.err.app \in UnknownListed(Head(scan))

\* C7 witness: the call has failed on the second hostname, which lists a known
\* name and then an unknown one, after the Node of the first was built.
C7_Witness ==
    /\ mode = "model"
    /\ HasNodeMap
    /\ pc = "nodes"
    /\ result.status = "raised"
    /\ result.err.msg = Unrecognised
    /\ nodes # {}
    /\ Len(NodeMap[result.err.host].l) = 2
    /\ NodeMap[result.err.host].l[1] \in DOMAIN applications
    /\ NodeMap[result.err.host].l[2] = result.err.app

\* A call has ended: it returned or it raised.
Ended == result.status # "running"

\* Application b is what re-parsing the serialized form of a should give: the
\* ports and links of a, the placeholder image, an unknown mountpoint.
Reparsed(a, b) ==
    /\ b.name = a.name
    /\ b.ports = a.ports
    /\ b.links = a.links
    /\ b.image = DockerImage_from_string(VW("unknown")).val
    /\ b.volume.present = a.volume.present
    /\ b.volume.mountpoint = NoPath

\* C8: serializing a set of Applications with configuration_to_yaml and
\* re-parsing the result gives, for every application of the set, an
\* Application of the same ports and links, the placeholder image and an
\* unknown mountpoint.
C8_RoundTrip ==
    (mode = "yaml" /\ Ended) =>
        /\ result.status = "returned"
        /\ \A a \in yamlApps :
               \E n \in result.deployment.nodes :
                   \E b \in n.applications : Reparsed(a, b)

\* C9: current_from_configuration parses the application mapping of every node
\* with the native front end in lenient mode; the fig front end takes no part
\* in it.
C9_NativeFrontEndOnly ==
    mode = "current" =>
        /\ lenient
        /\ pc \notin {"parse", "link"}

Range(q) == {q[i] : i \in DOMAIN q}

\* What holds of a first pass that has failed, and of a second pass that has
\* started.
FirstPassAborts ==
    /\ (pc \in {"parse", "native_applications"} /\ result.status = "raised") =>
           /\ DOMAIN applications \cap Range(scan) = {}
           /\ \A a \in DOMAIN applications : applications[a].links = {} \/ pc # "parse"
           /\ mode = "model" => nodes = {}
           /\ result.deployment = Deployment({})
    /\ (pc = "link" /\ appConfig.t = "dict") =>
           /\ DOMAIN applications = DOMAIN appConfig.d
           /\ DOMAIN application_links = DOMAIN appConfig.d
    /\ result.status = "returned" => pc = "done"

\* C10: the first validation failure ends the call: the applications after the
\* failing one are not validated, link resolution is not started, the
\* deployment mapping is not examined and no Deployment is returned, for
\* nothing is done once the failure is raised; link resolution starts only
\* when every application of the mapping has passed the first pass.
C10_FirstFailureAborts ==
    /\ []FirstPassAborts
    /\ [][result.status # "raised"]_vars

\* C10 witness: of three applications the first is validated, the second has
\* failed and the third is never visited.
C10_Witness ==
    /\ mode = "model"
    /\ pc = "parse"
    /\ result.status = "raised"
    /\ Len(scan) = 2
    /\ Cardinality(DOMAIN applications) = 1

\* C1: model_from_configuration returns a Deployment or raises a
\* ConfigurationError; no exception of another kind leaves it.
C1_OnlyConfigurationError ==
    (mode = "model" /\ result.status = "raised")
        => result.err.kind = "ConfigurationError"

\* C2: is_valid_format returns true exactly when some top-level entry has
\* exactly one of 'image' and 'build' and no top-level entry has both.
C2_ValidFormatIff ==
    Detected =>
        (ReturnedTrue <=>
            /\ \E k \in DOMAIN appConfig.d : ExactlyOneIdentifier(appConfig.d[k])
            /\ \A k \in DOMAIN appConfig.d : ~BothIdentifiers(appConfig.d[k]))

\* C2 witness: detection returned true on a mapping of several entries, one of
\* which is no fig application.
C2_Witness ==
    /\ ReturnedTrue
    /\ Len(names) >= 2
    /\ \E k \in DOMAIN appConfig.d : ~ExactlyOneIdentifier(appConfig.d[k])

FoundBoth == "Must specify either 'build' or 'image'; found both."

\* C3: when a top-level entry has both 'image' and 'build', dialect detection
\* raises the "found both" ConfigurationError naming an entry that has both,
\* wherever that entry comes in the scan and whatever the other entries are.
C3_AmbiguousEntryRaises ==
    (Detected /\ \E k \in DOMAIN appConfig.d : BothIdentifiers(appConfig.d[k]))
        => /\ pc = "detect"
           /\ result.status = "raised"
           /\ result.err.kind = "ConfigurationError"
           /\ result.err.msg = FoundBoth
           /\ result.err.app \in DOMAIN appConfig.d
           /\ BothIdentifiers(appConfig.d[result.err.app])

\* C3 witness: the entry with both keys is the last of three in the scan, after
\* an entry that has settled the dialect as fig.
C3_Witness ==
    /\ Detected
    /\ result.status = "raised"
    /\ Len(names) = 3
    /\ result.err.app = names[3]
    /\ ExactlyOneIdentifier(appConfig.d[names[1]])
    /\ ExactlyOneIdentifier(appConfig.d[names[2]])

\* The native front end has been entered on appConfig, and it has made its
\* top-level checks.
NativeEntered == Detected /\ pc # "detect" /\ ~validated
NativeTopDone == NativeEntered /\ (pc = "native" => result.status = "raised")
\* model_from_configuration has made the top-level checks of depConfig.
DeploymentTopDone ==
    /\ mode = "model"
    /\ \/ pc \in {"nodes", "return", "done"}
       \/ pc = "applications" /\ result.status = "raised"

\* What the top-level checks of mapping cfg, made at position at, must have
\* given: a ConfigurationError for a missing required key, another for a
\* missing 'version', a third for a 'version' that is not 1, and none of them
\* for version 1 with the required key.
TopLevelOutcome(cfg, required, at) ==
    LET has(k) == VW(k) \in DOMAIN cfg.d
        failed == pc = at /\ result.status = "raised"
                     /\ result.err.kind = "ConfigurationError"
        version == cfg.d[VW("version")]
    IN  /\ ~has(required) =>
               /\ failed
               /\ result.err.msg = "Missing required key."
               /\ result.err.value = VW(required)
        /\ ~has("version") => failed
        /\ (has(required) /\ ~has("version")) =>
               result.err.msg = "Missing 'version' key."
        /\ (has(required) /\ has("version")
               /\ version \notin {VInt(1), VBool(TRUE)}) =>
               /\ failed
               /\ result.err.msg = "Incorrect version specified."
        /\ (has(required) /\ has("version") /\ version = VInt(1)) => ~failed

NotSupportedYet == "'build' is not supported yet; please specify 'image'."
MustContainEither ==
    "Application configuration must contain either an 'image' or 'build' key."
NoIdentifier(entry) ==
    entry.t = "dict" /\ ~HasKey(entry, "image") /\ ~HasKey(entry, "build")

\* The fig first pass has failed on the application it was visiting.
FigFailedOn(a) ==
    /\ ReturnedTrue
    /\ pc = "parse"
    /\ result.status = "raised"
    /\ a = Head(scan)

\* C12: the fig front end rejects every application entry with the key 'build'
\* with the 'not supported yet' ConfigurationError, and every entry with neither
\* 'image' nor 'build' with the 'must contain either' one; no such entry becomes
\* an Application and the pass does not get beyond it.
C12_BuildNotSupported ==
    ReturnedTrue =>
        /\ \A a \in DOMAIN appConfig.d :
               /\ (FigFailedOn(a) /\ HasKey(appConfig.d[a], "build")) =>
                      /\ result.err.kind = "ConfigurationError"
                      /\ result.err.msg = NotSupportedYet
                      /\ result.err.app = a
               /\ (FigFailedOn(a) /\ NoIdentifier(appConfig.d[a])) =>
                      /\ result.err.kind = "ConfigurationError"
                      /\ result.err.msg = MustContainEither
                      /\ result.err.app = a
               /\ (HasKey(appConfig.d[a], "build") \/ NoIdentifier(appConfig.d[a])) =>
                      /\ a \notin DOMAIN applications
                      /\ pc = "parse"
        /\ (result.status = "raised" /\ result.err.msg = NotSupportedYet) =>
               HasKey(appConfig.d[Head(scan)], "build")

\* C12 witness: the first pass has validated one application and has rejected
\* the next, whose only identifying key is 'build'.
C12_Witness ==
    /\ FigFailedOn(Head(scan))
    /\ result.err.msg = NotSupportedYet
    /\ HasKey(appConfig.d[Head(scan)], "build")
    /\ ~HasKey(appConfig.d[Head(scan)], "image")
    /\ applications # EmptyMap

OnlyOneVolume == "Only one volume per application is supported at this time."

\* The 'volumes' list that application a was given, when it is a list of
\* strings (the pass takes the item off the list it is handed, so the list is
\* read from the argument as it was before the call).
StringVolumes(a) ==
    /\ appInput.t = "dict"
    /\ a \in DOMAIN appInput.d
    /\ HasKey(appInput.d[a], "volumes")
    /\ appInput.d[a].d[VW("volumes")].t = "list"
    /\ \A i \in DOMAIN appInput.d[a].d[VW("volumes")].l :
           appInput.d[a].d[VW("volumes")].l[i].t \in StringTypes
GivenVolumes(a) == appInput.d[a].d[VW("volumes")].l

\* An entry with a valid image and, besides, only keys that the first pass
\* looks at from 'volumes' on.
PlainBeforeVolumes(a) ==
    /\ appInput.d[a].d[VW("image")] = VW("nginx")
    /\ DOMAIN appInput.d[a].d \subseteq
           {VW("image"), VW("volumes"), VW("ports"), VW("links")}

\* C13: the fig front end rejects an application with two or more volume
\* strings with a ConfigurationError, and gives an application with exactly one
\* volume string p the volume AttachedVolume(name = its own name, mountpoint =
\* the path p), whether p is absolute or not.
C13_FigVolumes ==
    (mode = "model" /\ ReturnedTrue) =>
        \A a \in DOMAIN appConfig.d :
            StringVolumes(a) =>
                /\ Len(GivenVolumes(a)) >= 2 =>
                       /\ a \notin DOMAIN applications
                       /\ pc = "parse"
                       /\ (FigFailedOn(a) /\ PlainBeforeVolumes(a)) =>
                              /\ result.err.kind = "ConfigurationError"
                              /\ result.err.msg = OnlyOneVolume
                              /\ result.err.app = a
                /\ (Len(GivenVolumes(a)) = 1 /\ a \in DOMAIN applications) =>
                       applications[a].volume =
                           AttachedVolume(a, FilePath(GivenVolumes(a)[1].s))
                /\ (Len(GivenVolumes(a)) = 1
                       /\ DOMAIN appInput.d[a].d = {VW("image"), VW("volumes")}
                       /\ PlainBeforeVolumes(a)) => ~FigFailedOn(a)

\* C13 witness: an application whose one volume string is a relative path has
\* been given the volume with that path as its mountpoint.
C13_Witness ==
    /\ mode = "model"
    /\ ReturnedTrue
    /\ \E a \in DOMAIN applications :
           /\ StringVolumes(a)
           /\ GivenVolumes(a) = <<VW("data")>>
           /\ applications[a].volume = AttachedVolume(a, FilePath(W("data")))

\* The 'environment' value application a was given.
HasEnvironment(a) == HasKey(appConfig.d[a], "environment")
GivenEnvironment(a) == appConfig.d[a].d[VW("environment")]
StringMapping(v) ==
    /\ v.t = "dict"
    /\ \A k \in DOMAIN v.d : k.t \in StringTypes /\ v.d[k].t \in StringTypes

\* C14: the fig front end accepts an 'environment' value only if it is a mapping
\* whose keys and values are all strings, and an accepted environment becomes
\* the set of its (key, value) pairs.
C14_FigEnvironment ==
    ReturnedTrue =>
        \A a \in DOMAIN applications :
            HasEnvironment(a) =>
                /\ StringMapping(GivenEnvironment(a))
                /\ applications[a].environment =
                       EnvironmentSet({<<k, GivenEnvironment(a).d[k]>> :
                                          k \in DOMAIN GivenEnvironment(a).d})

\* The mapping the native front end was handed, as it was before the call (the
\* front end takes the keys it reads out of the application mappings).
NativeInput == IF mode = "model" THEN appInput ELSE current.d[host]
NativeGiven(a) == NativeInput.d[VW("applications")].d[a]
HasVolumeMapping(a) ==
    /\ HasKey(NativeGiven(a), "volume")
    /\ NativeGiven(a).d[VW("volume")].t = "dict"

\* C15: in strict and in lenient mode the native front end accepts no
\* application whose 'volume' mapping has a key other than 'mountpoint'.
C15_VolumeLeftoverKeys ==
    NativeEntered =>
        \A a \in DOMAIN applications :
            HasVolumeMapping(a) =>
                DOMAIN NativeGiven(a).d[VW("volume")].d \subseteq {VW("mountpoint")}

\* Entry i of the 'links' list of application a has the form "appname" or
\* "appname:alias".
LinkForm(a, i) ==
    /\ Directives(a)[i].t \in StringTypes
    /\ Cardinality(Colons(Directives(a)[i].s)) <= 1

\* C16: the fig front end accepts no application one of whose 'links' entries
\* is not a string of the form "appname" or "appname:alias", and it records a
\* link directive for no such entry.
C16_LinkEntryForm ==
    ReturnedTrue =>
        /\ \A a \in DOMAIN applications :
               \A i \in DOMAIN Directives(a) : LinkForm(a, i)
        /\ \A a \in DOMAIN application_links :
               \A i \in DOMAIN application_links[a] : LinkForm(a, i)

\* The 'ports' list application a was given, when it is a list of strings.
StringPorts(a) ==
    /\ HasKey(appConfig.d[a], "ports")
    /\ appConfig.d[a].d[VW("ports")].t = "list"
    /\ \A i \in DOMAIN appConfig.d[a].d[VW("ports")].l :
           appConfig.d[a].d[VW("ports")].l[i].t \in StringTypes
GivenPorts(a) == appConfig.d[a].d[VW("ports")].l
\* An entry "H:C" with integers H and C.
HostContainer(e) ==
    /\ Len(e.s) = 3
    /\ e.s[2] = ":"
    /\ e.s[1] \in DOMAIN Numerals
    /\ e.s[3] \in DOMAIN Numerals
Malformed(a) == {GivenPorts(a)[i] : i \in {j \in DOMAIN GivenPorts(a) :
                                              ~HostContainer(GivenPorts(a)[j])}}
PlainBeforePorts(a) ==
    /\ appConfig.d[a].d[VW("image")] = VW("nginx")
    /\ DOMAIN appConfig.d[a].d \subseteq {VW("image"), VW("ports"), VW("links")}

\* C17: the fig front end turns a 'ports' entry "H:C" into Port(external_port =
\* H, internal_port = C), and fails on every malformed entry with a
\* ConfigurationError that names the entry.
C17_FigPorts ==
    ReturnedTrue =>
        \A a \in DOMAIN appConfig.d :
            (appConfig.d[a].t = "dict" /\ StringPorts(a)) =>
                /\ a \in DOMAIN applications =>
                       /\ Malformed(a) = {}
                       /\ applications[a].ports =
                              {Port(VInt(Numerals[GivenPorts(a)[i].s[3]]),
                                    VInt(Numerals[GivenPorts(a)[i].s[1]])) :
                                  i \in DOMAIN GivenPorts(a)}
                /\ (FigFailedOn(a) /\ PlainBeforePorts(a) /\ Malformed(a) # {}) =>
                       /\ result.err.kind = "ConfigurationError"
                       /\ result.err.app = a
                       /\ result.err.value \in Malformed(a)

PlainNative ==
    {VDict(Image), VDict(Image @@ Field("ports", VList(<<NativePort(80, 8080)>>)))}

\* appInput has the native shape and all its applications are plain ones.
NativeShaped ==
    /\ mode = "model"
    /\ appInput.t = "dict"
    /\ DOMAIN appInput.d = {VW("version"), VW("applications")}
    /\ appInput.d[VW("version")] = VInt(1)
    /\ appInput.d[VW("applications")].t = "dict"
    /\ \A n \in DOMAIN appInput.d[VW("applications")].d :
           appInput.d[VW("applications")].d[n] \in PlainNative

\* The call is parsing the application configuration, or has failed there.
InApplications ==
    pc \in {"construct", "detect", "parse", "link", "native", "native_applications"}

\* C19: a mapping of the native shape whose applications all satisfy the native
\* rules is classified as native and parsed by the native front end without an
\* error, whatever the names of its applications, 'image' and 'build' included.
C19_NativeWhateverNames ==
    (NativeShaped /\ Detected /\ pc # "detect") =>
        /\ ~validated
        /\ ~(InApplications /\ result.status = "raised")

\* The position of application a in the order of the first pass.
Visited(a) == CHOOSE i \in DOMAIN names : names[i] = a

\* The ports the configuration gives application t, whatever the order of the visits.
ConfiguredPorts(t) ==
    IF HasKey(appConfig.d[t], "ports")
    THEN {Port(VInt(Numerals[appConfig.d[t].d[VW("ports")].l[i].s[3]]),
               VInt(Numerals[appConfig.d[t].d[VW("ports")].l[i].s[1]])) :
             i \in DOMAIN appConfig.d[t].d[VW("ports")].l}
    ELSE {}

\* The links directive i of application a gives, from the configuration alone.
ConfiguredLinks(a, i) ==
    {Link(p.internal_port, p.external_port,
          [Directives(a)[i] EXCEPT !.s = AliasOf(Directives(a)[i])]) :
        p \in ConfiguredPorts(Named(TargetOf(Directives(a)[i])))}

\* C20: the table of Applications the fig front end ends with is a function of
\* the configuration mapping alone, not of the order of the first pass: it has
\* an entry for every key, with the ports the configuration gives it and the
\* links its directives give against the configured ports; a directive whose
\* target is visited after the linking application, or is the linking
\* application itself, gives a link for every port of the target.
C20_OrderOfVisits ==
    LinksDone =>
        /\ DOMAIN applications = DOMAIN appConfig.d
        /\ \A a \in DOMAIN applications :
               (WellFormed(a) /\ \A b \in DOMAIN applications : PlainLinker(b)) =>
                   /\ applications[a].ports = ConfiguredPorts(a)
                   /\ applications[a].links =
                          UNION {ConfiguredLinks(a, i) : i \in DOMAIN Directives(a)}
                   /\ \A i \in DOMAIN Directives(a) :
                          Visited(Named(TargetOf(Directives(a)[i]))) >= Visited(a) =>
                              /\ ConfiguredLinks(a, i) \subseteq applications[a].links
                              /\ Cardinality(ConfiguredLinks(a, i)) =
                                     Cardinality(ConfiguredPorts(
                                         Named(TargetOf(Directives(a)[i]))))

\* C20 witness: both passes are done on an application that was visited first
\* and links to itself and to the application visited after it, each of two
\* ports, and has the four links.
C20_Witness ==
    /\ LinksDone
    /\ Len(names) = 2
    /\ LET a == names[1]
       IN  /\ WellFormed(a)
           /\ \A b \in DOMAIN applications : PlainLinker(b)
           /\ Len(Directives(a)) = 2
           /\ {Named(TargetOf(Directives(a)[i])) : i \in DOMAIN Directives(a)}
                  = {names[1], names[2]}
           /\ Cardinality(ConfiguredPorts(names[1])) = 2
           /\ Cardinality(ConfiguredPorts(names[2])) = 2
           /\ Cardinality(applications[a].links) = 4

\* C21: when model_from_configuration has returned or failed, the application
\* mapping holds the keys and values it was given (the deployment mapping is
\* written by no step at all).
C21_InputsUnchanged ==
    (mode = "model" /\ Ended) => appConfig = appInput

\* C22: in every state of a FigConfiguration after its construction, the state
\* is_valid_format leaves when it raises included, _validated is true only if
\* the configuration has an entry with exactly one of 'image' and 'build' and
\* no entry with both.
C22_ValidatedFlag ==
    (Detected /\ validated) =>
        /\ \E k \in DOMAIN appConfig.d : ExactlyOneIdentifier(appConfig.d[k])
        /\ \A k \in DOMAIN appConfig.d : ~BothIdentifiers(appConfig.d[k])

\* C23: every Application of the native front end has an environment that is
\* none or a set of (key, value) pairs of strings, and an application whose
\* 'environment' value is no mapping of strings to strings, empty and falsy
\* values included, does not become an Application.
C23_NativeEnvironment ==
    NativeEntered =>
        \A a \in DOMAIN applications :
            /\ applications[a].environment.t \in {"none", "set"}
            /\ \A pair \in applications[a].environment.pairs :
                   pair[1].t \in StringTypes /\ pair[2].t \in StringTypes
            /\ HasKey(NativeGiven(a), "environment") =>
                   /\ StringMapping(NativeGiven(a).d[VW("environment")])
                   /\ applications[a].environment.t = "set"

====
